---- MODULE Spec2Model ----
(***************************************************************************)
(* Model of src/zillow/cli.py: parse_zillow_pages drives three browser     *)
(* engines in turn; for each it calls parse (project-root search, cookie   *)
(* loading, URL construction, five fetch-and-extract passes) and then      *)
(* writes the CSV file, closing the browser in a finally block.            *)
(*                                                                         *)
(* Conventions.  A Python string is a tuple of text parts, so that         *)
(* f-string interpolation and "+" are tuple concatenation.  An Optional    *)
(* value is a tuple of length 0 (None) or 1 (the value).  Directories on   *)
(* the path from the filesystem root to the working directory are their    *)
(* depths 0..MaxDepth; the parent of d is d - 1.                           *)
(***************************************************************************)
EXTENDS Naturals, Sequences, FiniteSets

\* ---- bounds of the model ------------------------------------------------
MaxDepth == 1
MaxArticles == 1
MaxCookies == 2

\* ---- program constants --------------------------------------------------
NumEngines == 3
NumIterations == 5

None == <<>>
Some(x) == <<x>>

\* p.chromium, p.firefox, p.webkit, in launch order
BrowserTypes == <<"chromium", "firefox", "webkit">>
Engines == 1..NumEngines

ZipCodes == {"90210", "10001"}
\* argparse: choices, and the default used when the argument is absent
SortModes == {"newest", "cheapest", "homes for you"}

\* parse_zillow_pages calls parse(browser, input_data): filter_request keeps
\* its default, None
FilterRequest == None

\* ---- cookies.json -------------------------------------------------------
\* one JSON object of the cookie list: "name" and "domain" may be missing,
\* and "name" may be the empty string
CookieEntries ==
    [name : {None, Some(<<>>), Some(<<"sid">>)},
     domain : {None, Some(<<".zillow.com">>)}]

RECURSIVE SeqsUpTo(_, _)
SeqsUpTo(S, n) ==
    IF n = 0 THEN {<<>>}
    ELSE LET shorter == SeqsUpTo(S, n - 1)
         IN shorter \cup {Append(s, x) : s \in {t \in shorter : Len(t) = n - 1}, x \in S}

\* what open() and json.load() find at <project>/.build/cookies.json
CookieFiles ==
    {[kind |-> k, entries |-> <<>>] : k \in {"absent", "invalid", "not_list"}}
    \cup {[kind |-> "list", entries |-> es] : es \in SeqsUpTo(CookieEntries, MaxCookies)}

\* ---- rendered pages -----------------------------------------------------
\* one <article> of //div[@id='search-results']: whether it holds the
\* zsg-icon-for-sale span, its overlay-link href and its price text
Articles ==
    { [for_sale |-> TRUE,  href |-> Some(<<"/homedetails/1">>), price |-> Some(<<"$1">>)],
      [for_sale |-> TRUE,  href |-> None,                       price |-> None],
      [for_sale |-> FALSE, href |-> Some(<<"/homedetails/2">>), price |-> Some(<<"$2">>)],
      [for_sale |-> FALSE, href |-> None,                       price |-> None] }

Pages == SeqsUpTo(Articles, MaxArticles)

\* ---- pure functions of parse --------------------------------------------
StrUrl(parts) == [type |-> "str", val |-> parts]
ListUrl(items) == [type |-> "list", val |-> items]

\* lines 53-61: one of three literal templates around the postal code
BuildUrl(filter_request, zip) ==
    IF filter_request = Some("newest")
    THEN StrUrl(<<"https://www.zillow.com/homes/for_sale/", zip, "/0_singlestory/days_sort">>)
    ELSE IF filter_request = Some("cheapest")
    THEN StrUrl(<<"https://www.zillow.com/homes/for_sale/", zip, "/0_singlestory/pricea_sort/">>)
    ELSE StrUrl(<<"https://www.zillow.com/homes/for_sale/", zip,
                  "_rb/?fromHomePage=true",
                  "&shouldFireSellPageImplicitClaimGA=false&fromHomePageTab=buy ">>)

\* line 45: cookie.get("name") or cookie.get("domain") or 'other'
\* (None and the empty string are both falsy)
Truthy(opt) == opt # None /\ opt[1] # <<>>
CookieName(cookie) ==
    IF Truthy(cookie.name) THEN cookie.name[1]
    ELSE IF Truthy(cookie.domain) THEN cookie.domain[1]
    ELSE <<"other">>

\* line 46: cookie["name"] = name
WithName(cookie) == [cookie EXCEPT !.name = Some(CookieName(cookie))]

\* line 100: properties.xpath(".//a[contains(@class,'overlay-link')]/@href")
HrefList(article) == IF article.href = None THEN <<>> ELSE <<article.href[1]>>

\* lines 103-123: the nine-key record built from one article
MakeRecord(article) ==
    [address |-> None,
     city |-> None,
     state |-> None,
     postal_code |-> None,
     price |-> article.price,
     facts_and_features |-> Some(<<>>),
     real_estate_provider |-> None,
     url |-> IF HrefList(article) # <<>>
             THEN Some(<<"https://www.zillow.com">> \o HrefList(article)[1])
             ELSE None,
     title |-> None]

\* line 112: the xpath result for the for-sale marker is truthy
IsForSale(article) == article.for_sale

\* the append without its guard: every article is kept
AppendAlways(plist, article) == Append(plist, MakeRecord(article))

\* lines 124-125
AppendIfForSale(plist, article) ==
    IF IsForSale(article) THEN Append(plist, MakeRecord(article)) ELSE plist

\* lines 138-152: DictWriter row in fieldnames order; None is an empty cell
Cell(opt) == IF opt = None THEN <<>> ELSE opt[1]
CsvRow(r) ==
    << Cell(r.title), Cell(r.address), Cell(r.city), Cell(r.state),
       Cell(r.postal_code), Cell(r.price), Cell(r.facts_and_features),
       Cell(r.real_estate_provider), Cell(r.url) >>
CsvRows(rows) == [k \in 1..Len(rows) |-> CsvRow(rows[k])]

\* ---- state --------------------------------------------------------------
VARIABLES
    zip_code, sort,            \* InputData
    cwd, markers,              \* working directory; directories holding pyproject.toml
    cookies_file, build_dir,   \* .build/cookies.json; whether .build exists
    pc, engine, error,         \* control position, index into BrowserTypes, raised exception
    launch_state, close_calls, \* per engine: launch outcome, number of browser.close() calls
    root, pyproject,           \* locals of the marker search
    cookie_data_list, diag_count,
    url, i, properties_list,
    contexts,                  \* contexts open in the current browser, with their cookies
    goto_arg,                  \* argument of the latest page.goto call
    search_results, idx,
    screenshots,               \* indices n of example-<n>.png written
    scraped_data,
    csv_file, csv_writes,      \* properties-<zip>.csv; number of times it was opened "wb"
    sources, all_extracted     \* history: article of each kept record; records of all passes

vars == << zip_code, sort, cwd, markers, cookies_file, build_dir, pc, engine, error,
           launch_state, close_calls, root, pyproject, cookie_data_list, diag_count,
           url, i, properties_list, contexts, goto_arg, search_results, idx,
           screenshots, scraped_data, csv_file, csv_writes, sources, all_extracted >>

env == << zip_code, sort, cwd, markers, cookies_file >>
search_vars == << root, pyproject >>
loop_vars == << url, i, properties_list, search_results, idx, sources >>
out_vars == << scraped_data, csv_file, csv_writes >>

Init ==
    /\ zip_code \in ZipCodes
    /\ sort \in SortModes
    /\ cwd = MaxDepth
    /\ markers \in SUBSET (0..MaxDepth)
    /\ cookies_file \in CookieFiles
    /\ build_dir = (cookies_file.kind # "absent")
    /\ pc = "launch"
    /\ engine = 1
    /\ error = "none"
    /\ launch_state = [e \in Engines |-> "not_tried"]
    /\ close_calls = [e \in Engines |-> 0]
    /\ root = None
    /\ pyproject = None
    /\ cookie_data_list = <<>>
    /\ diag_count = 0
    /\ url = StrUrl(<<>>)
    /\ i = 0
    /\ properties_list = <<>>
    /\ contexts = <<>>
    /\ goto_arg = None
    /\ search_results = <<>>
    /\ idx = 1
    /\ screenshots = {}
    /\ scraped_data = <<>>
    /\ csv_file = None
    /\ csv_writes = 0
    /\ sources = <<>>
    /\ all_extracted = <<>>

\* an exception raised inside the try block of parse_zillow_pages
Raise(kind) ==
    /\ error' = kind
    /\ pc' = "finally"

\* line 133, then lines 28-30 on entry to parse
Launch ==
    /\ pc = "launch"
    /\ \/ /\ launch_state' = [launch_state EXCEPT ![engine] = "ok"]
          /\ cookie_data_list' = <<>>
          /\ root' = Some(cwd)
          /\ pyproject' = None
          /\ pc' = "search_loop"
          /\ error' = error
       \/ /\ launch_state' = [launch_state EXCEPT ![engine] = "failed"]
          /\ error' = "launch"
          /\ pc' = "aborted"
          /\ UNCHANGED << cookie_data_list, root, pyproject >>
    /\ UNCHANGED << env, build_dir, engine, close_calls, diag_count, loop_vars,
                    contexts, goto_arg, screenshots, out_vars, all_extracted >>

\* lines 31-32: the loop test, and pyproject = root.joinpath("pyproject.toml")
SearchLoop ==
    /\ pc = "search_loop"
    /\ \/ /\ root # None
          /\ pyproject' = Some(root[1])
          /\ pc' = "search_test"
       \/ /\ root = None
          /\ pyproject' = pyproject
          /\ pc' = "cookies"
    /\ UNCHANGED << env, build_dir, engine, error, launch_state, close_calls, root,
                    cookie_data_list, diag_count, loop_vars, contexts, goto_arg,
                    screenshots, out_vars, all_extracted >>

\* lines 33-34: root is cleared when the marker exists and is otherwise left as it is
SearchTest ==
    /\ pc = "search_test"
    /\ root' = IF pyproject[1] \in markers THEN None ELSE root
    /\ pc' = "search_loop"
    /\ UNCHANGED << env, build_dir, engine, error, launch_state, close_calls, pyproject,
                    cookie_data_list, diag_count, loop_vars, contexts, goto_arg,
                    screenshots, out_vars, all_extracted >>

\* the open() failure without the except clause: it leaves parse
CookieFileNotFoundUncaught ==
    /\ Raise("FileNotFoundError")
    /\ UNCHANGED << cookie_data_list, diag_count >>

\* lines 48-51: except IOError prints the diagnostic and parse goes on
CookieFileNotFound ==
    /\ diag_count' = diag_count + 1
    /\ pc' = "url"
    /\ UNCHANGED << error, cookie_data_list >>

\* lines 36-51
LoadCookies ==
    /\ pc = "cookies"
    /\ IF pyproject = None
       THEN /\ pc' = "url"
            /\ UNCHANGED << build_dir, error, cookie_data_list, diag_count >>
       ELSE /\ build_dir' = TRUE
            /\ CASE cookies_file.kind = "absent" -> CookieFileNotFound
                 [] cookies_file.kind = "invalid" ->
                      /\ Raise("ValueError")
                      /\ UNCHANGED << cookie_data_list, diag_count >>
                 [] cookies_file.kind = "not_list" ->
                      /\ pc' = "url"
                      /\ UNCHANGED << error, cookie_data_list, diag_count >>
                 [] cookies_file.kind = "list" ->
                      \* SetCookieParam is imported under TYPE_CHECKING only
                      \* (lines 12-14): evaluating it for the first entry
                      \* raises NameError, after that entry's name was set
                      IF cookies_file.entries = <<>>
                      THEN /\ pc' = "url"
                           /\ UNCHANGED << error, cookie_data_list, diag_count >>
                      ELSE /\ Raise("NameError")
                           /\ UNCHANGED << cookie_data_list, diag_count >>
    /\ UNCHANGED << env, engine, launch_state, close_calls, search_vars, loop_vars,
                    contexts, goto_arg, screenshots, out_vars, all_extracted >>

\* lines 53-63
SetUrl ==
    /\ pc = "url"
    /\ url' = BuildUrl(FilterRequest, zip_code)
    /\ properties_list' = <<>>
    /\ sources' = <<>>
    /\ i' = 0
    /\ pc' = "for"
    /\ UNCHANGED << env, build_dir, engine, error, launch_state, close_calls, search_vars,
                    cookie_data_list, diag_count, contexts, goto_arg, search_results, idx,
                    screenshots, out_vars, all_extracted >>

\* lines 64-67 (a new context with the cookies, and its page), or line 127
NewContext ==
    /\ pc = "for"
    /\ IF i < NumIterations
       THEN /\ contexts' = Append(contexts, [cookies |-> cookie_data_list])
            /\ pc' = "goto"
            /\ scraped_data' = scraped_data
       ELSE /\ scraped_data' = properties_list
            /\ pc' = "write"
            /\ contexts' = contexts
    /\ UNCHANGED << env, build_dir, engine, error, launch_state, close_calls, search_vars,
                    cookie_data_list, diag_count, loop_vars, goto_arg, screenshots,
                    csv_file, csv_writes, all_extracted >>

\* lines 68-75: navigation, content, screenshot, and the article search.
\* Page.goto takes a str: any other argument is refused by the driver.
Goto ==
    /\ pc = "goto"
    /\ goto_arg' = Some(url)
    /\ \/ /\ url.type = "str"
          /\ \E page \in Pages : search_results' = page
          /\ idx' = 1
          /\ screenshots' = screenshots \cup {i}
          /\ pc' = "extract"
          /\ error' = error
       \/ /\ url.type = "str"
          /\ Raise("navigation")
          /\ UNCHANGED << search_results, idx, screenshots >>
       \/ /\ url.type # "str"
          /\ Raise("goto_argument")
          /\ UNCHANGED << search_results, idx, screenshots >>
    /\ UNCHANGED << env, build_dir, engine, launch_state, close_calls, search_vars,
                    cookie_data_list, diag_count, url, i, properties_list, sources,
                    contexts, out_vars, all_extracted >>

\* lines 77-125, one article per step; after the last one the next iteration
Extract ==
    /\ pc = "extract"
    /\ IF idx <= Len(search_results)
       THEN LET article == search_results[idx]
                kept == AppendIfForSale(properties_list, article)
            IN /\ url' = ListUrl(HrefList(article))
               /\ properties_list' = kept
               /\ sources' = IF Len(kept) > Len(properties_list)
                             THEN Append(sources, article) ELSE sources
               /\ all_extracted' = IF Len(kept) > Len(properties_list)
                                   THEN Append(all_extracted, kept[Len(kept)])
                                   ELSE all_extracted
               /\ idx' = idx + 1
               /\ UNCHANGED << i, pc >>
       ELSE /\ i' = i + 1
            /\ pc' = "for"
            /\ UNCHANGED << url, properties_list, sources, all_extracted, idx >>
    /\ UNCHANGED << env, build_dir, engine, error, launch_state, close_calls, search_vars,
                    cookie_data_list, diag_count, contexts, goto_arg, search_results,
                    screenshots, out_vars >>

\* lines 136-152: open(..., "wb") truncates, then header and rows
WriteCsv ==
    /\ pc = "write"
    /\ \/ /\ csv_file' = Some(CsvRows(scraped_data))
          /\ csv_writes' = csv_writes + 1
          /\ pc' = "finally"
          /\ error' = error
       \/ /\ Raise("csv_open")
          /\ UNCHANGED << csv_file, csv_writes >>
    /\ UNCHANGED << env, build_dir, engine, launch_state, close_calls, search_vars,
                    cookie_data_list, diag_count, loop_vars, contexts, goto_arg,
                    screenshots, scraped_data, all_extracted >>

\* the close as the last statement of the try body: skipped when it raised
BrowserCloseUnlessRaised ==
    IF error = "none"
    THEN /\ close_calls' = [close_calls EXCEPT ![engine] = @ + 1]
         /\ contexts' = <<>>
    ELSE UNCHANGED << close_calls, contexts >>

\* line 154: browser.close() also closes the contexts the browser still holds
BrowserClose ==
    /\ close_calls' = [close_calls EXCEPT ![engine] = @ + 1]
    /\ contexts' = <<>>

\* lines 153-154, then the exception propagates or the engine loop goes on (line 132)
Finally ==
    /\ pc = "finally"
    /\ BrowserClose
    /\ IF error # "none" THEN /\ pc' = "aborted"
                              /\ engine' = engine
       ELSE IF engine < NumEngines THEN /\ pc' = "launch"
                                        /\ engine' = engine + 1
       ELSE /\ pc' = "done"
            /\ engine' = engine
    /\ UNCHANGED << env, build_dir, error, launch_state, search_vars, cookie_data_list,
                    diag_count, loop_vars, goto_arg, screenshots, out_vars, all_extracted >>

Next ==
    \/ Launch
    \/ SearchLoop
    \/ SearchTest
    \/ LoadCookies
    \/ SetUrl
    \/ NewContext
    \/ Goto
    \/ Extract
    \/ WriteCsv
    \/ Finally

Spec == Init /\ [][Next]_vars

\* asyncio.run drives the single coroutine: a step that can be taken is taken
FairSpec == Spec /\ WF_vars(Next)

\* ---- properties ---------------------------------------------------------
\* control positions of parse after cookie loading has returned normally
AfterCookies == {"url", "for", "goto", "extract"}

\* C1: the URL passed to page.goto is the template of the run's sort mode
\* (days_sort for "newest", pricea_sort for "cheapest", the _rb default
\* otherwise), filled with the postal code.
C1_UrlFollowsSort ==
    goto_arg # None => goto_arg[1] = BuildUrl(Some(sort), zip_code)

\* C2: after a run in which all three engines completed, the rows of the CSV
\* file are the for-sale records of all fifteen passes, in extraction order.
C2_CsvHoldsAllPasses ==
    pc = "done" => csv_file = Some(CsvRows(all_extracted))

\* C3: a run that ends in a launch or navigation failure, of any engine, has
\* not written the CSV file at any earlier point.
C3_NoCsvBeforeFailure ==
    (pc = "aborted" /\ error \in {"launch", "navigation"}) => csv_writes = 0

\* C4: the marker search always ends: with no marker in the working directory
\* or its ancestors parse goes on to URL construction with no cookies, and
\* with the marker only in a strict ancestor the search reaches that marker.
C4_SearchTerminates ==
    /\ (pc = "search_loop" /\ markers = {})
          ~> (pc = "url" /\ cookie_data_list = <<>>)
    /\ (pc = "search_loop" /\ markers # {} /\ cwd \notin markers)
          ~> (pc = "cookies" /\ pyproject # None /\ pyproject[1] \in markers)

\* C5: every record of the output list comes from an article that has the
\* for-sale marker, and processing an article without the marker leaves the
\* output list as it was, whatever other fields the article has.
C5_KeptHaveMarker ==
    /\ Len(sources) = Len(properties_list)
    /\ \A k \in 1..Len(sources) :
          /\ sources[k].for_sale
          /\ properties_list[k] = MakeRecord(sources[k])
C5_NoMarkerNoRecord ==
    (pc = "extract" /\ idx <= Len(search_results) /\ ~search_results[idx].for_sale)
        => properties_list' = properties_list
C5_OnlyForSaleKept == []C5_KeptHaveMarker /\ [][C5_NoMarkerNoRecord]_vars

C5_Witness ==
    /\ pc = "extract"
    /\ Len(search_results) = 1
    /\ idx = 2
    /\ ~search_results[1].for_sale
    /\ search_results[1].href # None
    /\ search_results[1].price # None
    /\ properties_list = <<>>

\* C6: a browser whose launch succeeded is closed exactly once, before the
\* next engine is launched and before the run ends, whether parse and the CSV
\* write returned or raised; a browser whose launch failed is never closed.
C6_ClosedExactlyOnce ==
    \A e \in Engines :
        /\ close_calls[e] <= 1
        /\ launch_state[e] # "ok" => close_calls[e] = 0
        /\ (launch_state[e] = "ok" /\ (e < engine \/ pc \in {"done", "aborted"}))
              => close_calls[e] = 1

C6_Witness ==
    /\ pc = "aborted"
    /\ error = "navigation"
    /\ engine = 2
    /\ close_calls[1] = 1
    /\ close_calls[2] = 1

\* C7: with the marker found and cookies.json absent, cookie loading prints
\* the diagnostic once per call of parse, leaves the cookie list empty and
\* raises nothing, and every context is given zero cookies.
C7_AbsentFileIsHarmless ==
    cookies_file.kind = "absent" =>
        /\ cookie_data_list = <<>>
        /\ \A k \in 1..Len(contexts) : contexts[k].cookies = <<>>
        /\ pc \in AfterCookies => diag_count = engine
        /\ error \in {"none", "launch", "navigation", "goto_argument", "csv_open"}

C7_Witness ==
    /\ cookies_file.kind = "absent"
    /\ engine = 2
    /\ pc = "goto"
    /\ Len(contexts) = 2
    /\ diag_count = 2

\* C8: a cookies.json holding a list of n entries loads without error into n
\* cookie records in list order, each its entry with only the name replaced
\* by the entry's name, else its domain, else "other".
C8_CookiesLoaded ==
    cookies_file.kind = "list" =>
        /\ error # "NameError"
        /\ pc \in AfterCookies =>
              cookie_data_list = [k \in 1..Len(cookies_file.entries) |->
                                     WithName(cookies_file.entries[k])]

\* C9: within one call of parse every page.goto receives the URL string that
\* was constructed before the loop.
C9_GotoKeepsUrl ==
    goto_arg # None => goto_arg[1] = BuildUrl(FilterRequest, zip_code)

\* C10: at most one browsing context is open at any point of a run.
C10_OneContext == Len(contexts) <= 1

====
